---- MODULE Spec2Model ----
(***************************************************************************)
(* The DynamoDB writer of lib/output/writer/dynamodb.go: NewDynamoDB,      *)
(* Connect and Write with its retry loop over BatchWriteItem, driven by    *)
(* the backoff policy that retries.Config.Get builds.                      *)
(*                                                                         *)
(* Time is counted in seconds.  The writer's clock is not kept as an       *)
(* absolute value: the model keeps the two differences the code reads,     *)
(* the backoff's elapsed time (now - startTime) and, per Write call, the   *)
(* time since its last failed submission, both saturating.                 *)
(***************************************************************************)
EXTENDS Integers, FiniteSets, Sequences, TLC

\* ------------------------------------------------------------- bounds
\* Number of parts (records) a message can carry.
MaxRecs == 5

Records == 1..MaxRecs
\* The messages handed to Write: n parts, part i holding record i.
Messages == {1..n : n \in 0..MaxRecs}
\* Number of parts of a message under FairSpec, and those messages.
MaxFairRecs == 2
FairMessages == {1..n : n \in 0..MaxFairRecs}
\* Number of parts of the first caller's message under ConcSpec; the second
\* caller's message is empty or holds one record the first caller's cannot
\* hold, so that a request can be told to be one's own.
MaxConcRecs == 2
ConcMessages(c) ==
    IF c = "w1"
    THEN {1..n : n \in 0..MaxConcRecs}
    ELSE {{}, {MaxConcRecs + 1}}
\* The goroutines that call the writer, and the one that does when the
\* writer is used by one goroutine.
Callers == {"w1", "w2"}
Sequential == {"w1"}

\* ------------------------------------------------------ configuration
\* NewDynamoDBConfig: the retry fields' defaults.
MaxRetries == 3
InitialInterval == 1
MaxInterval == 5
MaxElapsedTime == 30
\* Growth factor of the exponential backoff.
Multiplier == 2
\* backoff.Stop: the value NextBackOff returns to signal "do not retry".
Stop == -1
\* The wait variable before the loop body has assigned it.
NoWait == 0

Min(a, b) == IF a < b THEN a ELSE b

\* The per-call counters of submissions and consultations stop counting here.
CountCap == MaxRetries + 2

\* DynamoDBConfig values the model draws from: the attribute map, the TTL
\* duration string, the TTL attribute name and whether the retry fields parse.
ColumnSets == {{}, {"id"}}
TTLStrings == {"", "1h", "nope"}
TTLKeys == {"", "ttl_at"}

AllConfigs ==
    [StringColumns : ColumnSets, TTL : TTLStrings, TTLKey : TTLKeys,
     retriesParse : BOOLEAN]

\* time.ParseDuration on the strings of TTLStrings: -1 stands for the error.
ParseDuration(s) ==
    CASE s = "1h" -> 3600
      [] OTHER -> -1

\* NewDynamoDB: the constructor's outcome for a configuration: whether a
\* writer is returned, and its ttl and strColumns fields.
NewDynamoDB(c) ==
    IF ~c.retriesParse
    THEN [ok |-> FALSE, ttl |-> 0, strColumns |-> {}]
    ELSE IF Cardinality(c.StringColumns) = 0
    THEN [ok |-> FALSE, ttl |-> 0, strColumns |-> {}]
    ELSE IF c.TTL # "" /\ ParseDuration(c.TTL) = -1
    THEN [ok |-> FALSE, ttl |-> 0, strColumns |-> {}]
    ELSE [ok |-> TRUE,
          ttl |-> IF c.TTL # "" THEN ParseDuration(c.TTL) ELSE 0,
          strColumns |-> c.StringColumns]

\* The configuration the writer of Spec is built from: the defaults with
\* one column and a TTL stored under "ttl_at".
WriterConfigs ==
    {c \in AllConfigs :
        /\ c.retriesParse
        /\ c.StringColumns = {"id"}
        /\ c.TTL = "1h"
        /\ c.TTLKey = "ttl_at"}

VARIABLES
    conf,        \* d.conf
    built,       \* NewDynamoDB returned a writer
    ttl,         \* d.ttl
    strColumns,  \* d.strColumns (the attribute names)
    client,      \* d.client: "nil" or "client"
    backoff,     \* d.backoff: numTries, currentInterval, elapsed
    connHist,    \* the last two Connect calls made since a Write last found
                 \* a client, oldest first
    prevEnd,     \* how the last Write call that found a client ended
    pc,          \* per caller: position in Write
    writeReqs,   \* per caller: the pending list
    wait,        \* per caller: the loop's wait
    err,         \* per caller: the loop's err
    ret,         \* per caller: Write's return value
    input,       \* per caller: the requests rendered from the message
    subs,        \* per caller: BatchWriteItem calls made by this call
    consults,    \* per caller: NextBackOff calls made by this call
    accepted,    \* per caller: requests the store has accepted
    dupAccept,   \* per caller: some request was accepted twice
    shrinking,   \* per caller: every submission was accepted in part or
                 \* whole, with no transport error
    didReset,    \* per caller: the call has reset the backoff
    prevWait,    \* per caller: the wait of the last submission
    sinceFail    \* per caller: time since the last submission, counted up
                 \* to prevWait

confVars == <<conf, built, ttl, strColumns>>
callVars == <<pc, writeReqs, wait, err, ret>>
histVars == <<input, subs, consults, accepted, dupAccept, shrinking,
              didReset, sinceFail, prevWait>>
vars == <<confVars, client, backoff, connHist, prevEnd, callVars, histVars>>

NilErr == [kind |-> "nil", n |-> 0]

\* ---------------------------------------------------- backoff policy
\* backoff.WithMaxRetries(ExponentialBackOff, MaxRetries), as retries.Config
\* builds it.  Reset: back to the initial interval, elapsed time cleared.
Reset(b) ==
    [numTries |-> 0, currentInterval |-> InitialInterval, elapsed |-> 0]

\* NextBackOff: Stop once MaxRetries durations were handed out since the last
\* reset, or once the elapsed time since the last reset exceeds
\* MaxElapsedTime; otherwise the current interval, which then grows by
\* Multiplier up to MaxInterval.
NextBackOff(b) ==
    IF MaxRetries <= b.numTries
    THEN [wait |-> Stop, b |-> b]
    ELSE IF b.elapsed > MaxElapsedTime
    THEN [wait |-> Stop, b |-> [b EXCEPT !.numTries = @ + 1]]
    ELSE [wait |-> b.currentInterval,
          b |-> [b EXCEPT !.numTries = @ + 1,
                          !.currentInterval = Min(@ * Multiplier, MaxInterval)]]

\* ------------------------------------------------------------ render
\* The item Write renders for one record: the TTL attribute when a TTL and a
\* TTL key are set, then every configured column (lines 156-167).
Item(i) ==
    (IF ttl # 0 /\ conf.TTLKey # "" THEN {conf.TTLKey} ELSE {}) \cup strColumns

WriteRequest(i) == [rec |-> i, attrs |-> Item(i)]

Render(msg) == {WriteRequest(i) : i \in msg}

AllRequests == Render(Records)

\* -------------------------------------------------------------- Init
InitWith(configs) ==
    /\ conf \in configs
    /\ built = NewDynamoDB(conf).ok
    /\ ttl = NewDynamoDB(conf).ttl
    /\ strColumns = NewDynamoDB(conf).strColumns
    /\ client = "nil"
    /\ backoff = Reset(0)
    /\ connHist = <<>>
    /\ prevEnd = "none"
    /\ pc = [c \in Callers |-> "idle"]
    /\ writeReqs = [c \in Callers |-> {}]
    /\ wait = [c \in Callers |-> NoWait]
    /\ err = [c \in Callers |-> NilErr]
    /\ ret = [c \in Callers |-> "none"]
    /\ input = [c \in Callers |-> {}]
    /\ subs = [c \in Callers |-> 0]
    /\ consults = [c \in Callers |-> 0]
    /\ accepted = [c \in Callers |-> {}]
    /\ dupAccept = [c \in Callers |-> FALSE]
    /\ shrinking = [c \in Callers |-> TRUE]
    /\ didReset = [c \in Callers |-> FALSE]
    /\ sinceFail = [c \in Callers |-> 0]
    /\ prevWait = [c \in Callers |-> NoWait]

Init == InitWith(WriterConfigs)

\* ----------------------------------------------------------- Connect
\* What DescribeTable can answer: an error, or an output whose table, status
\* or status value is as named.
DescribeResults ==
    {"error", "nil output", "nil table", "nil status", "CREATING", "ACTIVE"}

\* Connect without the early return of lines 124-126: it connects again
\* whether or not a client is held.
ConnectOutcome_NoGuard(cl, sessErr, out) ==
    IF sessErr
    THEN [ret |-> "session error", sessions |-> 1, describes |-> 0,
          client |-> cl]
    ELSE IF out = "error"
    THEN [ret |-> "describe error", sessions |-> 1, describes |-> 1,
          client |-> cl]
    ELSE IF out # "ACTIVE"
    THEN [ret |-> "must be active", sessions |-> 1, describes |-> 1,
          client |-> cl]
    ELSE [ret |-> "nil", sessions |-> 1, describes |-> 1,
          client |-> "client"]

\* Connect storing the client before it has looked at the table status.
ConnectOutcome_StoreEarly(cl, sessErr, out) ==
    IF cl # "nil"
    THEN [ret |-> "nil", sessions |-> 0, describes |-> 0, client |-> cl]
    ELSE IF sessErr
    THEN [ret |-> "session error", sessions |-> 1, describes |-> 0,
          client |-> cl]
    ELSE IF out = "error"
    THEN [ret |-> "describe error", sessions |-> 1, describes |-> 1,
          client |-> cl]
    ELSE IF out # "ACTIVE"
    THEN [ret |-> "must be active", sessions |-> 1, describes |-> 1,
          client |-> "client"]
    ELSE [ret |-> "nil", sessions |-> 1, describes |-> 1,
          client |-> "client"]

\* The outcome of one Connect call (lines 123-146): its return value, the
\* sessions it acquired, the DescribeTable calls it made and the client it
\* leaves in d.client.
ConnectOutcome(cl, sessErr, out) ==
    IF cl # "nil"
    THEN [ret |-> "nil", sessions |-> 0, describes |-> 0, client |-> cl]
    ELSE IF sessErr
    THEN [ret |-> "session error", sessions |-> 1, describes |-> 0,
          client |-> cl]
    ELSE IF out = "error"
    THEN [ret |-> "describe error", sessions |-> 1, describes |-> 1,
          client |-> cl]
    ELSE IF out # "ACTIVE"
    THEN [ret |-> "must be active", sessions |-> 1, describes |-> 1,
          client |-> cl]
    ELSE [ret |-> "nil", sessions |-> 1, describes |-> 1,
          client |-> "client"]

LastTwo(s) == IF Len(s) > 2 THEN SubSeq(s, Len(s) - 1, Len(s)) ELSE s

Connect(sessErr, out) ==
    /\ built
    /\ LET o == ConnectOutcome(client, sessErr, out)
       IN /\ client' = o.client
          /\ connHist' = LastTwo(Append(connHist,
                 [ret |-> o.ret, sessions |-> o.sessions,
                  describes |-> o.describes]))
    /\ UNCHANGED <<confVars, backoff, prevEnd, callVars, histVars>>

\* ------------------------------------------------------------- Write
\* Write keeping its pending list in the writer, shared by all calls.
WriteBegin_SharedList(c, msg) ==
    /\ built
    /\ pc[c] = "idle"
    /\ IF client = "nil"
       THEN /\ pc' = [pc EXCEPT ![c] = "done"]
            /\ ret' = [ret EXCEPT ![c] = "ErrNotConnected"]
            /\ UNCHANGED <<writeReqs, input, connHist>>
       ELSE /\ pc' = [pc EXCEPT ![c] = "loop"]
            /\ writeReqs' = [d \in Callers |-> Render(msg)]
            /\ input' = [input EXCEPT ![c] = Render(msg)]
            /\ connHist' = <<>>
            /\ UNCHANGED ret
    /\ UNCHANGED <<confVars, client, backoff, prevEnd, wait, err, subs, consults,
                   accepted, dupAccept, shrinking, didReset,
                   sinceFail, prevWait>>

\* Write without the connection check of lines 150-152.
WriteBegin_NoCheck(c, msg) ==
    /\ built
    /\ pc[c] = "idle"
    /\ pc' = [pc EXCEPT ![c] = "loop"]
    /\ writeReqs' = [writeReqs EXCEPT ![c] = Render(msg)]
    /\ input' = [input EXCEPT ![c] = Render(msg)]
    /\ connHist' = <<>>
    /\ UNCHANGED <<confVars, client, backoff, prevEnd, wait, err, ret, subs,
                   consults, accepted, dupAccept, shrinking, didReset,
                   sinceFail, prevWait>>

\* Lines 149-174: the connection check and the rendering of the message.
WriteBegin(c, msg) ==
    /\ built
    /\ pc[c] = "idle"
    /\ IF client = "nil"
       THEN /\ pc' = [pc EXCEPT ![c] = "done"]
            /\ ret' = [ret EXCEPT ![c] = "ErrNotConnected"]
            /\ UNCHANGED <<writeReqs, input, connHist>>
       ELSE /\ pc' = [pc EXCEPT ![c] = "loop"]
            /\ writeReqs' = [writeReqs EXCEPT ![c] = Render(msg)]
            /\ input' = [input EXCEPT ![c] = Render(msg)]
            /\ connHist' = <<>>
            /\ UNCHANGED ret
    /\ UNCHANGED <<confVars, client, backoff, prevEnd, wait, err, subs, consults,
                   accepted, dupAccept, shrinking, didReset,
                   sinceFail, prevWait>>

\* Line 177, the loop condition failing: the pending list is empty.
LoopExit(c) ==
    /\ pc[c] = "loop"
    /\ writeReqs[c] = {}
    /\ pc' = [pc EXCEPT ![c] = "after"]
    /\ UNCHANGED <<confVars, client, backoff, connHist, prevEnd, writeReqs,
                   wait, err, ret, histVars>>

\* The loop giving up as soon as the backoff signals stop, without the
\* submission of lines 180-184.
Consult_StopSkips(c) ==
    /\ pc[c] = "loop"
    /\ writeReqs[c] # {}
    /\ LET r == NextBackOff(backoff)
       IN /\ wait' = [wait EXCEPT ![c] = r.wait]
          /\ backoff' = r.b
          /\ pc' = [pc EXCEPT ![c] = IF r.wait = Stop THEN "after"
                                     ELSE "submit"]
          /\ err' = [err EXCEPT ![c] =
                         IF r.wait = Stop
                         THEN [kind |-> "transport", n |-> 0] ELSE @]
    /\ consults' = [consults EXCEPT ![c] = Min(@ + 1, CountCap)]
    /\ UNCHANGED <<confVars, client, connHist, prevEnd, writeReqs, ret,
                   input, subs, accepted, dupAccept, shrinking, didReset,
                   sinceFail, prevWait>>

\* The loop as a do-while: the backoff is consulted and the batch submitted
\* before the pending list is looked at.
Consult_DoWhile(c) ==
    /\ pc[c] = "loop"
    /\ subs[c] = 0 \/ writeReqs[c] # {}
    /\ LET r == NextBackOff(backoff)
       IN /\ wait' = [wait EXCEPT ![c] = r.wait]
          /\ backoff' = r.b
    /\ consults' = [consults EXCEPT ![c] = Min(@ + 1, CountCap)]
    /\ pc' = [pc EXCEPT ![c] = "submit"]
    /\ UNCHANGED <<confVars, client, connHist, prevEnd, writeReqs, err, ret,
                   input, subs, accepted, dupAccept, shrinking, didReset,
                   sinceFail, prevWait>>

\* Lines 177-178: the pending list is not empty; consult the backoff.
Consult(c) ==
    /\ pc[c] = "loop"
    /\ writeReqs[c] # {}
    /\ LET r == NextBackOff(backoff)
       IN /\ wait' = [wait EXCEPT ![c] = r.wait]
          /\ backoff' = r.b
    /\ consults' = [consults EXCEPT ![c] = Min(@ + 1, CountCap)]
    /\ pc' = [pc EXCEPT ![c] = "submit"]
    /\ UNCHANGED <<confVars, client, connHist, prevEnd, writeReqs, err, ret,
                   input, subs, accepted, dupAccept, shrinking,
                   didReset, sinceFail, prevWait>>

\* Line 178 while another call is in its loop: d.backoff is shared and not
\* locked, so the update this consultation makes to it can be lost to the
\* other call's.
ConsultLostUpdate(c) ==
    /\ pc[c] = "loop"
    /\ writeReqs[c] # {}
    /\ \E d \in Callers \ {c} : pc[d] \in {"loop", "submit", "after"}
    /\ wait' = [wait EXCEPT ![c] = NextBackOff(backoff).wait]
    /\ consults' = [consults EXCEPT ![c] = Min(@ + 1, CountCap)]
    /\ pc' = [pc EXCEPT ![c] = "submit"]
    /\ UNCHANGED <<confVars, client, backoff, connHist, prevEnd, writeReqs,
                   err, ret, input, subs, accepted, dupAccept, shrinking,
                   didReset, sinceFail, prevWait>>

\* The loop clearing the pending list on a transport error.
AfterSubmit_DropOnError(reqs, e, unproc) ==
    IF e
    THEN [writeReqs |-> {}, err |-> [kind |-> "transport", n |-> 0]]
    ELSE IF Cardinality(unproc) > 0
    THEN [writeReqs |-> unproc,
          err |-> [kind |-> "unprocessed", n |-> Cardinality(unproc)]]
    ELSE [writeReqs |-> {}, err |-> NilErr]

\* The loop keeping the whole batch pending when part of it was unprocessed.
AfterSubmit_KeepAll(reqs, e, unproc) ==
    IF e
    THEN [writeReqs |-> reqs, err |-> [kind |-> "transport", n |-> 0]]
    ELSE IF Cardinality(unproc) > 0
    THEN [writeReqs |-> reqs,
          err |-> [kind |-> "unprocessed", n |-> Cardinality(unproc)]]
    ELSE [writeReqs |-> {}, err |-> NilErr]

\* Lines 185-192: the pending list and err after a BatchWriteItem that
\* returned a transport error (e) or the unprocessed items unproc.
AfterSubmit(reqs, e, unproc) ==
    IF e
    THEN [writeReqs |-> reqs, err |-> [kind |-> "transport", n |-> 0]]
    ELSE IF Cardinality(unproc) > 0
    THEN [writeReqs |-> unproc,
          err |-> [kind |-> "unprocessed", n |-> Cardinality(unproc)]]
    ELSE [writeReqs |-> {}, err |-> NilErr]

\* The loop without the break of lines 195-197.
AfterAttempt_NoBreak(e, w) == "loop"

\* Lines 194-199: where the loop goes after a submission: out of the loop
\* on an error with wait = Stop, else back to the loop condition;
\* time.After(wait) only creates a timer, nothing receives from it.
AfterAttempt(e, w) ==
    IF e.kind # "nil" /\ w = Stop THEN "after" ELSE "loop"

\* Lines 179-199: one BatchWriteItem call and the handling of its result.
\* The store answers with a transport error (e) or with the items of the
\* batch it did not write (unproc).
Submit(c, e, unproc) ==
    /\ pc[c] = "submit"
    /\ LET r == AfterSubmit(writeReqs[c], e, unproc)
           acc == IF e THEN {} ELSE writeReqs[c] \ unproc
       IN /\ writeReqs' = [writeReqs EXCEPT ![c] = r.writeReqs]
          /\ err' = [err EXCEPT ![c] = r.err]
          /\ pc' = [pc EXCEPT ![c] = AfterAttempt(r.err, wait[c])]
          /\ accepted' = [accepted EXCEPT ![c] = @ \cup acc]
          /\ dupAccept' = [dupAccept EXCEPT ![c] =
                              @ \/ acc \cap accepted[c] # {}]
          /\ shrinking' = [shrinking EXCEPT ![c] = @ /\ ~e /\ acc # {}]
          /\ sinceFail' = [sinceFail EXCEPT ![c] = 0]
          /\ prevWait' = [prevWait EXCEPT ![c] = wait[c]]
    /\ subs' = [subs EXCEPT ![c] = Min(@ + 1, CountCap)]
    /\ UNCHANGED <<confVars, client, backoff, connHist, prevEnd, wait, ret,
                   input, consults, didReset>>

\* Write resetting the backoff whatever err is.
Finish_AlwaysReset(c) ==
    /\ pc[c] = "after"
    /\ backoff' = Reset(backoff)
    /\ didReset' = [didReset EXCEPT ![c] = TRUE]
    /\ prevEnd' = IF err[c].kind = "nil" THEN "success" ELSE "exhausted"
    /\ ret' = [ret EXCEPT ![c] = "nil"]
    /\ pc' = [pc EXCEPT ![c] = "done"]
    /\ UNCHANGED <<confVars, client, connHist, writeReqs, wait, err, input,
                   subs, consults, accepted, dupAccept, shrinking,
                   sinceFail, prevWait>>

\* Write returning without the reset of lines 202-204.
Finish_NoReset(c) ==
    /\ pc[c] = "after"
    /\ prevEnd' = IF err[c].kind = "nil" THEN "success" ELSE "exhausted"
    /\ ret' = [ret EXCEPT ![c] = "nil"]
    /\ pc' = [pc EXCEPT ![c] = "done"]
    /\ UNCHANGED <<confVars, client, backoff, connHist, writeReqs, wait, err,
                   input, subs, consults, accepted, dupAccept, shrinking,
                   didReset, sinceFail, prevWait>>

\* Lines 202-205: reset the backoff when err is nil; return nil.
Finish(c) ==
    /\ pc[c] = "after"
    /\ IF err[c].kind = "nil"
       THEN /\ backoff' = Reset(backoff)
            /\ didReset' = [didReset EXCEPT ![c] = TRUE]
            /\ prevEnd' = "success"
       ELSE /\ prevEnd' = "exhausted"
            /\ UNCHANGED <<backoff, didReset>>
    /\ ret' = [ret EXCEPT ![c] = "nil"]
    /\ pc' = [pc EXCEPT ![c] = "done"]
    /\ UNCHANGED <<confVars, client, connHist, writeReqs, wait, err, input,
                   subs, consults, accepted, dupAccept, shrinking,
                   sinceFail, prevWait>>

\* The caller has taken the result; the call's locals are gone.
Return(c) ==
    /\ pc[c] = "done"
    /\ pc' = [pc EXCEPT ![c] = "idle"]
    /\ writeReqs' = [writeReqs EXCEPT ![c] = {}]
    /\ wait' = [wait EXCEPT ![c] = NoWait]
    /\ err' = [err EXCEPT ![c] = NilErr]
    /\ ret' = [ret EXCEPT ![c] = "none"]
    /\ input' = [input EXCEPT ![c] = {}]
    /\ subs' = [subs EXCEPT ![c] = 0]
    /\ consults' = [consults EXCEPT ![c] = 0]
    /\ accepted' = [accepted EXCEPT ![c] = {}]
    /\ dupAccept' = [dupAccept EXCEPT ![c] = FALSE]
    /\ shrinking' = [shrinking EXCEPT ![c] = TRUE]
    /\ didReset' = [didReset EXCEPT ![c] = FALSE]
    /\ sinceFail' = [sinceFail EXCEPT ![c] = 0]
    /\ prevWait' = [prevWait EXCEPT ![c] = NoWait]
    /\ UNCHANGED <<confVars, client, backoff, connHist, prevEnd>>

\* -------------------------------------------------------------- time
\* One second passes.  The elapsed time stops counting once it is past
\* MaxElapsedTime, the time since a submission once it has reached that
\* submission's wait: beyond these no comparison changes.
Tick ==
    /\ built
    /\ backoff' = [backoff EXCEPT !.elapsed = Min(@ + 1, MaxElapsedTime + 1)]
    /\ sinceFail' = [c \in Callers |->
                        IF pc[c] \in {"loop", "submit"}
                           /\ sinceFail[c] < prevWait[c]
                        THEN sinceFail[c] + 1
                        ELSE sinceFail[c]]
    /\ UNCHANGED <<confVars, client, connHist, prevEnd, callVars, input,
                   subs, consults, accepted, dupAccept, shrinking,
                   didReset, prevWait>>

\* ------------------------------------------------------ specifications
\* No call is in progress on the writer.
Quiet == \A c \in Callers : pc[c] = "idle"

\* The writer used as section 5 of its design asks: one goroutine, one call
\* at a time, with messages drawn from msgs.
NextWith(msgs) ==
    \/ \E sessErr \in BOOLEAN, out \in DescribeResults :
           Quiet /\ Connect(sessErr, out)
    \/ \E c \in Sequential, msg \in msgs :
           Quiet /\ WriteBegin(c, msg)
    \/ \E c \in Sequential : LoopExit(c)
    \/ \E c \in Sequential : Consult(c)
    \/ \E c \in Sequential, e \in BOOLEAN :
           \E unproc \in SUBSET writeReqs[c] : Submit(c, e, unproc)
    \/ \E c \in Sequential : Finish(c)
    \/ \E c \in Sequential : Return(c)
    \/ Tick

Next == NextWith(Messages)

Spec == Init /\ [][Next]_vars

\* A Write call that has begun keeps running: the goroutine is scheduled and
\* every BatchWriteItem call returns.
WriteStep ==
    \E c \in Sequential :
        \/ LoopExit(c)
        \/ Consult(c)
        \/ \E e \in BOOLEAN, unproc \in SUBSET AllRequests :
               unproc \subseteq writeReqs[c] /\ Submit(c, e, unproc)
        \/ Finish(c)

FairNext == NextWith(FairMessages)

FairSpec == Init /\ [][FairNext]_vars /\ WF_vars(WriteStep)

\* The writer built from any configuration of AllConfigs; when NewDynamoDB
\* returns an error there is no writer and nothing can be called.
ConfSpec == InitWith(AllConfigs) /\ [][FairNext]_vars

\* The writer called by two goroutines at once, each making one Write call:
\* the steps of the two calls interleave in any order.
ConcNext ==
    \/ \E sessErr \in BOOLEAN, out \in DescribeResults :
           Quiet /\ Connect(sessErr, out)
    \/ \E c \in Callers :
           \E msg \in ConcMessages(c) : WriteBegin(c, msg)
    \/ \E c \in Callers : LoopExit(c)
    \/ \E c \in Callers : Consult(c)
    \/ \E c \in Callers : ConsultLostUpdate(c)
    \/ \E c \in Callers, e \in BOOLEAN :
           \E unproc \in SUBSET writeReqs[c] : Submit(c, e, unproc)
    \/ \E c \in Callers : Finish(c)

ConcSpec == Init /\ [][ConcNext]_vars

\* ============================================================ claims
\* The call of c is past its retry loop.
LeftLoop(c) == pc[c] \in {"after", "done"}

\* The call of c left its retry loop through the break of line 196.
StoppedOut(c) == LeftLoop(c) /\ err[c].kind # "nil" /\ wait[c] = Stop

\* C1: a Write call that leaves its retry loop with a write request still
\* pending returns a non-nil error; it returns nil only if the store has
\* accepted every input record.
C1_ExhaustionIsReported ==
    \A c \in Callers :
        (pc[c] = "done" /\ ret[c] = "nil")
            => (writeReqs[c] = {} /\ accepted[c] = input[c])

\* The call of c is in its retry loop with requests pending and nothing
\* accepted so far: the store has rejected every submission whole.
RejectedSoFar(c) ==
    /\ pc[c] \in {"loop", "submit"}
    /\ writeReqs[c] # {}
    /\ accepted[c] = {}

\* C2: a Write call of a non-empty record set makes at most MaxRetries + 1
\* submissions, and for as long as the store rejects every submission whole
\* the call goes on to leave its loop because the backoff signalled stop.
C2_RejectedWriteTerminates ==
    /\ [](\A c \in Callers : subs[c] <= MaxRetries + 1)
    /\ \A c \in Sequential :
           RejectedSoFar(c) ~> (StoppedOut(c) \/ accepted[c] # {})

\* C2 witness: a call whose MaxRetries + 1 submissions were all rejected has
\* left the loop on the stop signal.
C2_Witness ==
    \E c \in Callers :
        /\ StoppedOut(c)
        /\ input[c] # {}
        /\ accepted[c] = {}
        /\ subs[c] = MaxRetries + 1

\* C3 as stated: against a store that accepts a non-empty part of every
\* submission, Write ends with an empty pending list and every record
\* accepted in exactly one submission.
C3_ShrinkingStoreConverges ==
    \A c \in Callers :
        (pc[c] = "done" /\ ret[c] = "nil" /\ shrinking[c])
            => (writeReqs[c] = {} /\ accepted[c] = input[c] /\ ~dupAccept[c])

\* C3 amended: against such a store no accepted record is submitted again,
\* the accepted and the pending records partition the input, and a call that
\* is past its loop has either an empty pending list, every record accepted
\* exactly once, or was stopped by the backoff policy with records pending.
C3_ShrinkingStoreNoResubmit ==
    \A c \in Callers :
        shrinking[c] =>
            /\ ~dupAccept[c]
            /\ accepted[c] \cap writeReqs[c] = {}
            /\ accepted[c] \cup writeReqs[c] = input[c]
            /\ LeftLoop(c) =>
                   \/ writeReqs[c] = {} /\ err[c].kind = "nil"
                   \/ StoppedOut(c) /\ writeReqs[c] # {}

\* C3 witness: a call of three records, accepted over several submissions
\* one part at a time, has ended with nothing pending.
C3_Witness ==
    \E c \in Callers :
        /\ pc[c] = "done"
        /\ shrinking[c]
        /\ Cardinality(input[c]) = 3
        /\ subs[c] = 3
        /\ writeReqs[c] = {}
        /\ accepted[c] = input[c]

\* The first submission of the call of c was made and accepted whole, and
\* the call has made no other.
FirstAccepted(c) ==
    /\ pc[c] # "idle"
    /\ input[c] # {}
    /\ subs[c] = 1
    /\ err[c].kind = "nil"

\* The backoff's counters are as Reset leaves them.
BackoffIsReset ==
    backoff.numTries = 0 /\ backoff.currentInterval = InitialInterval

\* C4: the first submission of a Write call of N >= 1 records carries all N
\* rendered requests; when the store accepts them all, the call makes no
\* second submission, resets the backoff and returns nil.
C4_FullAcceptanceOneSubmission ==
    [][\A c \in Callers :
          /\ (subs[c] = 0 /\ subs'[c] = 1) =>
                 (writeReqs[c] = input[c] /\ input[c] # {})
          /\ FirstAccepted(c) => (subs'[c] = 1 \/ pc'[c] = "idle")
          /\ FirstAccepted(c)' =>
                 /\ accepted'[c] = input'[c]
                 /\ writeReqs'[c] = {}
                 /\ pc'[c] \in {"loop", "after", "done"}
                 /\ pc'[c] = "done" =>
                        (didReset'[c] /\ BackoffIsReset' /\ ret'[c] = "nil")
      ]_vars

\* C4 witness: a call of MaxRecs records has returned after one submission
\* that the store accepted whole.
C4_Witness ==
    \E c \in Callers :
        /\ pc[c] = "done"
        /\ FirstAccepted(c)
        /\ Cardinality(input[c]) = MaxRecs
        /\ didReset[c]

\* C5: a Write call begun while d.client is nil, which is the case exactly
\* when no Connect call has succeeded, returns ErrNotConnected at once: no
\* record rendered, no submission, no backoff consultation and no reset.
C5_NotConnectedWrite ==
    [][/\ \A c \in Callers :
              (pc[c] = "idle" /\ pc'[c] # "idle" /\ client = "nil") =>
                  /\ pc'[c] = "done"
                  /\ ret'[c] = "ErrNotConnected"
                  /\ input'[c] = {}
                  /\ writeReqs'[c] = {}
                  /\ subs'[c] = 0
                  /\ consults'[c] = 0
                  /\ ~didReset'[c]
                  /\ backoff' = backoff
       /\ client' = "nil" =>
              \A i \in DOMAIN connHist' : connHist'[i].ret # "nil"
      ]_vars

\* C5 witness: after a failed Connect, a Write call has returned
\* ErrNotConnected.
C5_Witness ==
    \E c \in Callers :
        /\ pc[c] = "done"
        /\ ret[c] = "ErrNotConnected"
        /\ connHist # <<>>
        /\ client = "nil"

\* C6 as stated: two Connect calls in sequence make at most one readiness
\* check in total and report the same outcome.
C6_ConnectTwiceSameOutcome ==
    Len(connHist) = 2 =>
        /\ connHist[1].describes + connHist[2].describes <= 1
        /\ (connHist[1].ret = "nil") <=> (connHist[2].ret = "nil")

\* C6 amended: of two Connect calls in sequence, when the first succeeds the
\* second makes no readiness check and succeeds too, so the two make at most
\* one check in total; when the first fails the second starts over, with a
\* readiness check of its own whenever it acquires a session, and may
\* succeed.
C6_ConnectTwice ==
    Len(connHist) = 2 =>
        /\ connHist[1].ret = "nil" =>
               /\ connHist[2].ret = "nil"
               /\ connHist[2].describes = 0
               /\ connHist[1].describes + connHist[2].describes <= 1
        /\ connHist[1].ret # "nil" =>
               /\ connHist[2].sessions = 1
               /\ connHist[2].ret # "session error" =>
                      connHist[2].describes = 1

\* C6 witness: a Connect call that made the readiness check and succeeded
\* was followed by one that made none and succeeded.
C6_Witness ==
    /\ Len(connHist) = 2
    /\ connHist[1].ret = "nil"
    /\ connHist[1].describes = 1
    /\ connHist[2].ret = "nil"
    /\ connHist[2].describes = 0

\* The step is a Connect call: it adds an entry to connHist.
ConnectStep == connHist' # connHist /\ connHist' # <<>>

\* C7: once d.client is set no step clears or replaces it, and a Connect
\* call made then returns nil without acquiring a session or making a
\* readiness check.
C7_ConnectedStaysConnected ==
    [][client # "nil" =>
          /\ client' = client
          /\ ConnectStep =>
                 LET o == connHist'[Len(connHist')]
                 IN o.ret = "nil" /\ o.sessions = 0 /\ o.describes = 0
      ]_vars

\* C7 witness: on a connected writer that has finished a Write call, a
\* Connect call has returned nil with no session and no readiness check.
C7_Witness ==
    /\ client = "client"
    /\ prevEnd # "none"
    /\ connHist # <<>>
    /\ connHist[Len(connHist)].sessions = 0

\* C8: a failed Connect call returns an error after at most one readiness
\* check and leaves d.client nil, so a Write call made next returns
\* ErrNotConnected, and the Connect call after it acquires a session again
\* and, having got one, makes the readiness check again.
C8_FailedConnectLeavesNoClient ==
    /\ \A i \in DOMAIN connHist :
           /\ connHist[i].describes <= 1
           /\ connHist[i].sessions <= 1
    /\ (connHist # <<>> /\ connHist[Len(connHist)].ret # "nil") =>
           /\ client = "nil"
           /\ \A c \in Callers :
                  pc[c] = "done" => ret[c] = "ErrNotConnected"
    /\ (Len(connHist) = 2 /\ connHist[1].ret # "nil") =>
           /\ connHist[2].sessions = 1
           /\ connHist[2].ret # "session error" => connHist[2].describes = 1

\* C8 witness: a Connect call failed on a table that is not active, and the
\* one after it made the readiness check again and succeeded.
C8_Witness ==
    /\ Len(connHist) = 2
    /\ connHist[1].ret = "must be active"
    /\ connHist[2].ret = "nil"
    /\ connHist[2].describes = 1
    /\ client = "client"

\* C9: the first backoff consultation of a Write call that follows a fully
\* successful Write call returns the initial interval.
C9_FirstWaitAfterSuccess ==
    [][\A c \in Callers :
          (prevEnd = "success" /\ consults[c] = 0 /\ consults'[c] = 1)
              => wait'[c] = InitialInterval
      ]_vars

\* C10: after a failed submission whose wait was a duration w, the next
\* submission of the call is not made before w has passed.
C10_WaitsBetweenAttempts ==
    [][\A c \in Callers :
          (subs[c] >= 1 /\ subs'[c] = subs[c] + 1 /\ prevWait[c] # Stop)
              => sinceFail[c] >= prevWait[c]
      ]_vars

\* C11: a writer that NewDynamoDB returned with a non-zero TTL duration has
\* a non-empty TTL attribute name.
C11_TTLNeedsKey ==
    built => (ttl # 0 => conf.TTLKey # "")

\* C12: every rendered request holds the TTL attribute when a TTL duration
\* is configured, holds no attribute of the TTL attribute's name when it is
\* not, and holds every configured column in both cases.
C12_RenderedAttributes ==
    \A c \in Callers : \A r \in input[c] :
        /\ ttl # 0 => (conf.TTLKey # "" /\ conf.TTLKey \in r.attrs)
        /\ ttl = 0 => conf.TTLKey \notin r.attrs
        /\ conf.StringColumns \subseteq r.attrs

\* The call of c found a client and its message was empty.
EmptyWrite(c) == pc[c] # "idle" /\ client # "nil" /\ input[c] = {}

\* C13: a Write call on a connected writer with an empty record set makes
\* no submission, never consults the backoff and returns nil.
C13_EmptyWrite ==
    \A c \in Callers :
        EmptyWrite(c) =>
            /\ pc[c] \in {"loop", "after", "done"}
            /\ subs[c] = 0
            /\ consults[c] = 0
            /\ wait[c] = NoWait
            /\ pc[c] = "done" => ret[c] = "nil"

\* C13 witness: a Write call of an empty message has returned nil.
C13_Witness ==
    \E c \in Callers :
        /\ EmptyWrite(c)
        /\ pc[c] = "done"
        /\ ret[c] = "nil"
        /\ didReset[c]

\* The step leaves c inside one and the same Write call.
SameCall(c) == pc[c] # "idle" /\ pc'[c] # "idle"

\* The step is a BatchWriteItem call of c and the handling of its result.
SubmitStep(c) == subs'[c] = subs[c] + 1

\* C14: a submission that returns a non-empty unprocessed set U makes the
\* pending list exactly U, which stays so until the next submission; the
\* pending list never grows within a call, is part of the rendered requests,
\* and together with the accepted requests partitions them.
C14_PendingBecomesUnprocessed ==
    [][\A c \in Callers :
          /\ (SubmitStep(c) /\ err'[c].kind = "unprocessed") =>
                 /\ writeReqs'[c] = writeReqs[c] \ (accepted'[c] \ accepted[c])
                 /\ writeReqs'[c] # {}
                 /\ Cardinality(writeReqs'[c]) = err'[c].n
          /\ (SameCall(c) /\ ~SubmitStep(c)) => writeReqs'[c] = writeReqs[c]
          /\ SameCall(c) => writeReqs'[c] \subseteq writeReqs[c]
          /\ writeReqs'[c] \subseteq input'[c]
          /\ accepted'[c] \cap writeReqs'[c] = {}
          /\ accepted'[c] \cup writeReqs'[c] = input'[c]
      ]_vars

\* C14 witness: of four records submitted, two came back unprocessed and
\* are about to be submitted again.
C14_Witness ==
    \E c \in Callers :
        /\ pc[c] = "submit"
        /\ subs[c] = 1
        /\ err[c].kind = "unprocessed"
        /\ Cardinality(input[c]) = 4
        /\ Cardinality(writeReqs[c]) = 2

\* C15: a submission that returns a transport error leaves the pending list
\* as it was, the next submission carries the same requests, and no request
\* leaves the pending list unless the store has accepted it.
C15_TransportErrorKeepsPending ==
    [][\A c \in Callers :
          /\ (SubmitStep(c) /\ err'[c].kind = "transport") =>
                 (writeReqs'[c] = writeReqs[c] /\ accepted'[c] = accepted[c])
          /\ (SameCall(c) /\ ~SubmitStep(c)) => writeReqs'[c] = writeReqs[c]
          /\ SameCall(c) => (writeReqs[c] \ writeReqs'[c]) \subseteq accepted'[c]
      ]_vars

\* C15 witness: after a transport error on its first submission, a call of
\* two records is about to submit both again.
C15_Witness ==
    \E c \in Callers :
        /\ pc[c] = "submit"
        /\ subs[c] = 1
        /\ consults[c] = 2
        /\ err[c].kind = "transport"
        /\ Cardinality(input[c]) = 2
        /\ writeReqs[c] = input[c]

\* C16: the backoff is consulted once right before every submission, so a
\* call has made as many consultations as submissions; a stop signal does
\* not keep the submission from being made, the loop is left only after
\* that submission has failed, and when it is accepted whole the call ends
\* with the backoff reset and nil returned.
C16_ConsultBeforeEachSubmission ==
    [][\A c \in Callers :
          /\ consults'[c] = subs'[c] + (IF pc'[c] = "submit" THEN 1 ELSE 0)
          /\ SubmitStep(c) => (pc[c] = "submit" /\ consults[c] = subs[c] + 1)
          /\ (pc[c] = "submit" /\ pc'[c] # "submit") => SubmitStep(c)
          /\ (pc[c] = "submit" /\ pc'[c] = "after") =>
                 (wait[c] = Stop /\ err'[c].kind # "nil")
          /\ (SubmitStep(c) /\ wait[c] = Stop /\ err'[c].kind = "nil") =>
                 (pc'[c] = "loop" /\ writeReqs'[c] = {})
          /\ (pc[c] = "after" /\ pc'[c] = "done" /\ err[c].kind = "nil") =>
                 (didReset'[c] /\ BackoffIsReset' /\ ret'[c] = "nil")
      ]_vars

\* C16 witness: a call whose last consultation returned stop made the
\* submission all the same, had it accepted and ended with the backoff
\* reset.
C16_Witness ==
    \E c \in Callers :
        /\ pc[c] = "done"
        /\ wait[c] = Stop
        /\ err[c].kind = "nil"
        /\ subs[c] = MaxRetries + 1
        /\ consults[c] = subs[c]
        /\ didReset[c]

\* The step sets some counter of the backoff back.
BackoffSetBack ==
    \/ backoff'.numTries < backoff.numTries
    \/ backoff'.currentInterval < backoff.currentInterval
    \/ backoff'.elapsed < backoff.elapsed

\* C17: a Write call resets the backoff exactly when it ends with err nil;
\* a call that ends by exhaustion leaves the backoff as it is, and so do
\* Connect and a Write call that returns ErrNotConnected.
C17_ResetOnlyOnSuccess ==
    [][/\ \A c \in Callers :
              /\ (pc[c] # "done" /\ pc'[c] = "done") =>
                     (didReset'[c] <=>
                          (ret'[c] = "nil" /\ err'[c].kind = "nil"))
              /\ (~didReset[c] /\ didReset'[c]) =>
                     /\ pc[c] = "after"
                     /\ err[c].kind = "nil"
                     /\ backoff' = Reset(backoff)
              /\ (pc[c] = "after" /\ pc'[c] = "done" /\ err[c].kind # "nil")
                     => backoff' = backoff
              /\ (pc[c] = "idle" /\ pc'[c] = "done") => backoff' = backoff
       /\ ConnectStep => backoff' = backoff
       /\ BackoffSetBack =>
              \E c \in Callers :
                  pc[c] = "after" /\ pc'[c] = "done" /\ err[c].kind = "nil"
      ]_vars

\* C17 witness: a call has ended by exhaustion and the backoff still holds
\* the MaxRetries tries it counted.
C17_Witness ==
    \E c \in Callers :
        /\ pc[c] = "done"
        /\ err[c].kind # "nil"
        /\ ~didReset[c]
        /\ backoff.numTries = MaxRetries

\* C18: in the Write call of a non-empty message that follows a call ended
\* by exhaustion, the first consultation of the backoff returns stop, so the
\* call makes one submission; when it fails the call ends with no retry and
\* the backoff as it was, and when it is accepted whole the backoff is reset.
C18_OneSubmissionAfterExhaustion ==
    [][\A c \in Callers :
          prevEnd = "exhausted" =>
              /\ (consults[c] = 0 /\ consults'[c] = 1) => wait'[c] = Stop
              /\ (SubmitStep(c) /\ err'[c].kind # "nil") => pc'[c] = "after"
              /\ (pc[c] \in {"loop", "submit", "after"} /\ input[c] # {}) =>
                     /\ subs[c] <= 1
                     /\ pc[c] = "after" => subs[c] = 1
              /\ (pc[c] = "after" /\ pc'[c] = "done") =>
                     IF err[c].kind = "nil"
                     THEN BackoffIsReset' /\ prevEnd' = "success"
                     ELSE backoff' = backoff /\ prevEnd' = "exhausted"
      ]_vars

\* C18 witness: the call after an exhausted one has left the loop after its
\* single submission, which failed.
C18_Witness ==
    \E c \in Callers :
        /\ prevEnd = "exhausted"
        /\ pc[c] = "after"
        /\ input[c] # {}
        /\ subs[c] = 1
        /\ wait[c] = Stop
        /\ err[c].kind # "nil"

\* C19: the first backoff consultation of a Write call on a writer whose
\* backoff was last reset at construction or by a successful Write returns a
\* wait duration and not stop, however long the writer has been idle.
C19_RetryAllowanceIgnoresIdleTime ==
    [][\A c \in Callers :
          (prevEnd \in {"none", "success"} /\ consults[c] = 0
                                           /\ consults'[c] = 1)
              => wait'[c] \in InitialInterval..MaxInterval
      ]_vars

\* The records of the message c hands to Write under ConcSpec.
OwnRecords(c) == UNION ConcMessages(c)

\* C20: with two Write calls interleaved, what a call submits are requests
\* rendered from its own records, and a step of one call leaves the pending
\* list of the other call as it is.
C20_PendingListIsPrivate ==
    [][\A c \in Callers :
          /\ pc'[c] \in {"loop", "submit"} =>
                 /\ writeReqs'[c] \subseteq input'[c]
                 /\ \A r \in writeReqs'[c] : r.rec \in OwnRecords(c)
          /\ pc'[c] # pc[c] =>
                 \A d \in Callers \ {c} : writeReqs'[d] = writeReqs[d]
      ]_vars

\* C20 witness: both calls are about to submit, one of them what was left
\* unprocessed of its first submission, the other all of its records.
C20_Witness ==
    /\ pc["w1"] = "submit" /\ pc["w2"] = "submit"
    /\ subs["w1"] = 1 /\ subs["w2"] = 0
    /\ writeReqs["w1"] # {} /\ writeReqs["w1"] # input["w1"]
    /\ writeReqs["w2"] # {} /\ writeReqs["w2"] = input["w2"]
    /\ writeReqs["w1"] \cap writeReqs["w2"] = {}

====
